---- MODULE Spec2Model ----
(***************************************************************************)
(* A model of pyNakadi/client.py: the NakadiClient transport operations,   *)
(* the NakadiException they raise and the NakadiStream session wrapped     *)
(* around an open streaming response.                                      *)
(*                                                                         *)
(* Python values are modelled as follows.  bytes are sequences of          *)
(* integers 0..255, str is either a TLA+ string (urls, headers, messages)  *)
(* or, where it comes out of bytes.decode, a sequence of code points.      *)
(* A dict is a function on its keys.  An operation is one atomic action:   *)
(* it builds the request, receives a response chosen by the broker, and    *)
(* leaves in `call` what the caller observes (the value returned or the    *)
(* exception raised) together with the request that went out.              *)
(*                                                                         *)
(* The broker is the environment.  It answers with any of StatusCodes and  *)
(* with a body that is UTF-8 encoded text (the broker's API is JSON over   *)
(* UTF-8); a 204 answer has no body.                                       *)
(***************************************************************************)
EXTENDS Integers, Sequences, FiniteSets, TLC

VARIABLES
    token,        \* NakadiClient.token
    call,         \* the last API call: its arguments, request, response, outcome
    stream,       \* the NakadiStream most recently returned to the caller
    wire,         \* the streaming response as the broker has sent it so far
    trace,        \* history: the outcomes of the __next__ calls on `stream`
    close_calls   \* history: how many times close() was called on `stream`

vars == <<token, call, stream, wire, trace, close_calls>>

(***************************************************************************)
(* Bounds of the model.                                                    *)
(***************************************************************************)
MaxLines == 3
MaxClose == 2
MaxNext == MaxLines + 2

None == -999

(***************************************************************************)
(* Text and bytes.                                                         *)
(***************************************************************************)
LF == 10
CR == 13

\* str.encode('utf-8') as the broker applies it, for code points below 2048.
RECURSIVE Encode(_)
Encode(text) ==
    IF text = <<>> THEN <<>>
    ELSE LET cp == Head(text) IN
         (IF cp < 128 THEN <<cp>>
          ELSE <<192 + (cp \div 64), 128 + (cp % 64)>>) \o Encode(Tail(text))

\* bytes.decode('utf-8') from index i: one- and two-byte sequences; anything
\* else is a UnicodeDecodeError (ok = FALSE).
RECURSIVE DecodeFrom(_, _)
DecodeFrom(b, i) ==
    IF i > Len(b) THEN [ok |-> TRUE, text |-> <<>>]
    ELSE IF b[i] < 128
    THEN LET r == DecodeFrom(b, i + 1)
         IN  [ok |-> r.ok, text |-> IF r.ok THEN <<b[i]>> \o r.text ELSE <<>>]
    ELSE IF b[i] >= 194 /\ b[i] < 224 /\ i + 1 <= Len(b)
            /\ b[i + 1] >= 128 /\ b[i + 1] < 192
    THEN LET r == DecodeFrom(b, i + 2)
         IN  [ok |-> r.ok,
              text |-> IF r.ok
                       THEN <<(b[i] - 192) * 64 + (b[i + 1] - 128)>> \o r.text
                       ELSE <<>>]
    ELSE [ok |-> FALSE, text |-> <<>>]

Decode(b) == DecodeFrom(b, 1)

\* A str that came out of decode, written as a TLA+ string.
Chr(cp) ==
    CASE cp = 97  -> "a"
      [] cp = 34  -> "\""
      [] cp = 123 -> "{"
      [] cp = 125 -> "}"
      [] cp = LF  -> "\n"
      [] cp = 233 -> "&eacute;"
      [] OTHER    -> "?"

RECURSIVE Str(_)
Str(text) == IF text = <<>> THEN "" ELSE Chr(Head(text)) \o Str(Tail(text))

\* s[1:]
DropFirst(s) == SubSeq(s, 2, Len(s))

\* sub in s
Contains(s, sub) ==
    \E i \in 1..(Len(s) - Len(sub) + 1) : SubSeq(s, i, i + Len(sub) - 1) = sub

\* json.loads on the bodies the model's broker sends: a string literal, {} or [];
\* anything else (the empty string included) is a JSONDecodeError.
JsonLoads(text) ==
    IF text = <<123, 125>> \/ text = <<91, 93>>
    THEN [ok |-> TRUE, value |-> Str(text)]
    ELSE IF Len(text) >= 2 /\ text[1] = 34 /\ text[Len(text)] = 34
            /\ \A i \in 2..(Len(text) - 1) : text[i] # 34 /\ text[i] >= 32
    THEN [ok |-> TRUE, value |-> Str(text)]
    ELSE [ok |-> FALSE, value |-> ""]

(***************************************************************************)
(* The broker's answers.                                                   *)
(***************************************************************************)
StatusCodes == {200, 201, 204, 409}

Contents == {Encode(<<>>), Encode(<<34, 233, 34>>)}

Responses ==
    {r \in [status_code : StatusCodes, content : Contents] :
        r.status_code = 204 => r.content = <<>>}

\* The stream id the broker issues for a session, and the ids a caller may hold:
\* the current one or one left over from an earlier session.
StreamIds == {"abc123"}

HeldStreamIds == StreamIds \cup {"def456"}

Tokens == {"t1", "t2"}

nakadi_url == "http://nakadi"

EmptyDict == [k \in {} |-> ""]

NoRequest == [method |-> "", page |-> "", headers |-> EmptyDict, body |-> ""]

NoResponse == [status_code |-> None, content |-> <<>>]

NoArgs == [k \in {} |-> None]

(***************************************************************************)
(* NakadiException.                                                        *)
(***************************************************************************)
\* NakadiException(...) with the arguments `given` bound to the parameters of
\* __init__(self, code, msg): both must be bound, or the call itself raises
\* TypeError.
NakadiException(given) ==
    IF DOMAIN given = {"code", "msg"}
    THEN [raised |-> "NakadiException", code |-> given["code"], msg |-> given["msg"]]
    ELSE [raised |-> "TypeError", code |-> None,
          msg |-> "__init__() missing 1 required positional argument: 'msg'"]

Returned(value) == [raised |-> "", code |-> None, msg |-> "", value |-> value]

Raised(e) == [raised |-> e.raised, code |-> e.code, msg |-> e.msg, value |-> ""]

RaisedOther(name) == [raised |-> name, code |-> None, msg |-> "", value |-> ""]

(***************************************************************************)
(* NakadiClient: headers.                                                  *)
(***************************************************************************)
\* A faulty variant of authorization_header: the token the client was constructed
\* with is used instead of the current one.
authorization_header_stale(headers) ==
    ("Authorization" :> ("Bearer " \o "t1")) @@ headers

authorization_header(headers) ==
    ("Authorization" :> ("Bearer " \o token)) @@ headers

json_content_header(headers) ==
    ("Content-type" :> "application/json") @@ headers

\* Python's binding of keyword arguments to a signature's defaults.
Bind(defaults, given) ==
    [p \in DOMAIN defaults |-> IF p \in DOMAIN given THEN given[p] ELSE defaults[p]]

(***************************************************************************)
(* NakadiClient: what every operation does with the response.              *)
(***************************************************************************)
\* A faulty variant of ErrorMessage: the body is left out of the message.
ErrorMessageNoBody(errname, status_code, response_content_str) ==
    "Error during " \o errname \o ". "
        \o "Message from server:" \o ToString(status_code) \o " "

\* "Error during X. " + "Message from server:{} {}".format(status, body)
ErrorMessage(errname, status_code, response_content_str) ==
    "Error during " \o errname \o ". "
        \o "Message from server:" \o ToString(status_code) \o " "
        \o Str(response_content_str)

\* The accepted-status sets, as each operation's `not in [...]` test has them.
Accepted(op) ==
    CASE op = "create_subscription" -> {200, 201}
      [] op \in {"delete_subscription", "commit_subscription_cursors",
                 "reset_subscription_cursors"} -> {204}
      [] OTHER -> {200}

\* The tail shared by the request/response operations: decode the body, test
\* the status, then return True (ret = "True") or json.loads of the body.
Answer(op, errname, ret, resp) ==
    LET d == Decode(resp.content) IN
    IF ~d.ok THEN RaisedOther("UnicodeDecodeError")
    ELSE IF resp.status_code \notin Accepted(op)
    THEN Raised(NakadiException(
             ("code" :> resp.status_code)
             @@ ("msg" :> ErrorMessage(errname, resp.status_code, d.text))))
    ELSE IF ret = "True" THEN Returned("True")
    ELSE LET j == JsonLoads(d.text) IN
         IF j.ok THEN Returned(j.value) ELSE RaisedOther("JSONDecodeError")

\* The tail of the two stream-open operations: the body is read and decoded
\* only on the error path; on 200 the response is wrapped, unread.
AnswerStream(op, errname, resp) ==
    IF resp.status_code \notin Accepted(op)
    THEN LET d == Decode(resp.content) IN
         IF ~d.ok THEN RaisedOther("UnicodeDecodeError")
         ELSE Raised(NakadiException(
                  ("code" :> resp.status_code)
                  @@ ("msg" :> ErrorMessage(errname, resp.status_code, d.text))))
    ELSE Returned("NakadiStream")

Request(method, page, headers, body) ==
    [method |-> method, page |-> page, headers |-> headers, body |-> body]

\* One request/response operation, start to end.
Exchange(op, args, req, errname, ret) ==
    \E resp \in Responses :
        /\ call' = [op |-> op, args |-> args, nreq |-> 1, request |-> req,
                    response |-> resp] @@ Answer(op, errname, ret, resp)
        /\ UNCHANGED <<token, stream, wire, trace, close_calls>>

(***************************************************************************)
(* NakadiClient: the operations.                                           *)
(***************************************************************************)
JsonHeaders == json_content_header(authorization_header(EmptyDict))

AuthHeaders == authorization_header(EmptyDict)

event_type_name == "et1"
subscription_id == "sub1"
partition_id == "0"
Payload == "{\"k\": \"v\"}"
CursorLists == {"[]", "[{\"partition\": \"0\", \"offset\": \"7\"}]"}

set_token(t) ==
    /\ token' = t
    /\ call' = [op |-> "set_token", args |-> NoArgs, nreq |-> 0,
                request |-> NoRequest, response |-> NoResponse] @@ Returned("None")
    /\ UNCHANGED <<stream, wire, trace, close_calls>>

get_event_types ==
    Exchange("get_event_types", NoArgs,
             Request("GET", nakadi_url \o "/event-types", JsonHeaders, ""),
             "get_event_types", "json")

create_event_type ==
    Exchange("create_event_type", NoArgs,
             Request("POST", nakadi_url \o "/event-types", JsonHeaders, Payload),
             "create_event_type", "True")

get_event_type ==
    Exchange("get_event_type", NoArgs,
             Request("GET", nakadi_url \o "/event-types/" \o event_type_name,
                     AuthHeaders, ""),
             "get_event_type", "json")

update_event_type ==
    Exchange("update_event_type", NoArgs,
             Request("PUT", nakadi_url \o "/event-types/" \o event_type_name,
                     JsonHeaders, Payload),
             "update_event_type", "json")

delete_event_type ==
    Exchange("delete_event_type", NoArgs,
             Request("DELETE", nakadi_url \o "/event-types/" \o event_type_name,
                     AuthHeaders, ""),
             "delete_event_type", "True")

get_event_type_cursor_distances ==
    Exchange("get_event_type_cursor_distances", NoArgs,
             Request("POST", nakadi_url \o "/event-types/" \o event_type_name
                                \o "/cursor-distances", JsonHeaders, Payload),
             "get_event_type_cursor_distances", "json")

get_event_type_cursor_lag ==
    Exchange("get_event_type_cursor_lag", NoArgs,
             Request("POST", nakadi_url \o "/event-types/" \o event_type_name
                                \o "/cursor-lag", JsonHeaders, Payload),
             "get_event_type_cursor_lag", "json")

post_events ==
    Exchange("post_events", NoArgs,
             Request("POST", nakadi_url \o "/event-types/" \o event_type_name
                                \o "/events", JsonHeaders, Payload),
             "post_events", "True")

get_event_type_partitions ==
    Exchange("get_event_type_partitions", NoArgs,
             Request("GET", nakadi_url \o "/event-types/" \o event_type_name
                               \o "/partitions", AuthHeaders, ""),
             "get_event_type_partitions", "json")

get_event_type_partition ==
    Exchange("get_event_type_partition", NoArgs,
             Request("GET", nakadi_url \o "/event-types/" \o event_type_name
                               \o "/partitions/" \o partition_id, AuthHeaders, ""),
             "get_event_type_partition", "json")

create_subscription ==
    Exchange("create_subscription", NoArgs,
             Request("POST", nakadi_url \o "/subscriptions", JsonHeaders, Payload),
             "create_subscription", "json")

get_subscription ==
    Exchange("get_subscription", NoArgs,
             Request("GET", nakadi_url \o "/subscriptions/" \o subscription_id,
                     AuthHeaders, ""),
             "get_subscription", "json")

delete_subscription ==
    Exchange("delete_subscription", NoArgs,
             Request("DELETE", nakadi_url \o "/subscriptions/" \o subscription_id,
                     AuthHeaders, ""),
             "delete_subscription", "json")

get_subscription_stats ==
    Exchange("get_subscription_stats", NoArgs,
             Request("GET", nakadi_url \o "/subscriptions/" \o subscription_id
                               \o "/stats", AuthHeaders, ""),
             "get_subscription_stats", "json")

get_subscription_cursors ==
    Exchange("get_subscription_cursors", NoArgs,
             Request("GET", nakadi_url \o "/subscriptions/" \o subscription_id
                               \o "/cursors", AuthHeaders, ""),
             "get_subscription_stats", "json")

\* A faulty variant of CommitHeaders: the stream id header is not attached.
CommitHeadersNoStreamId(stream_id) == JsonHeaders

CommitHeaders(stream_id) == ("X-Nakadi-StreamId" :> stream_id) @@ JsonHeaders

commit_subscription_cursors(stream_id, cursors) ==
    Exchange("commit_subscription_cursors",
             [stream_id |-> stream_id, cursors |-> cursors],
             Request("POST", nakadi_url \o "/subscriptions/" \o subscription_id
                                \o "/cursors",
                     CommitHeaders(stream_id),
                     "{\"items\": " \o cursors \o "}"),
             "commit_subscription_cursors", "True")

reset_subscription_cursors(cursors) ==
    Exchange("reset_subscription_cursors", [cursors |-> cursors],
             Request("PATCH", nakadi_url \o "/subscriptions/" \o subscription_id
                                 \o "/cursors", JsonHeaders, cursors),
             "reset_subscription_cursors", "True")

(***************************************************************************)
(* NakadiClient.get_subscriptions.                                         *)
(***************************************************************************)
NoneStr == "<None>"

GetSubscriptionsDefaults ==
    [limit |-> 20, offset |-> 0, owning_application |-> NoneStr, event_type |-> <<>>]

\* assert_it(condition, exception): the exception it raises, if any.
assert_it(condition, exception) ==
    IF ~condition THEN Raised(exception) ELSE Returned("None")

\* reduce(lambda reduced, item: reduced + "&event_type=" + item, event_type, '')
RECURSIVE ReduceEventType(_)
ReduceEventType(event_type) ==
    IF event_type = <<>> THEN ""
    ELSE "&event_type=" \o Head(event_type) \o ReduceEventType(Tail(event_type))

GetSubscriptionsPage(a) ==
    nakadi_url \o "/subscriptions"
        \o "?limit=" \o ToString(a.limit) \o "&offset=" \o ToString(a.offset)
        \o (IF a.owning_application # NoneStr
            THEN "&owning_application=" \o a.owning_application ELSE "")
        \o ReduceEventType(a.event_type)

\* Python evaluates an argument before the call it is passed to: each
\* NakadiException(...) is constructed, whatever the condition, before
\* assert_it runs.  It is constructed with one positional argument.
get_subscriptions(given) ==
    LET a  == Bind(GetSubscriptionsDefaults, given)
        e1 == NakadiException("code" :> "limit must be >=1")
        e2 == NakadiException("code" :> "limit must be <=1000")
        e3 == NakadiException("code" :> "offset must be >=0")
        a1 == IF e1.raised = "TypeError" THEN Raised(e1)
              ELSE assert_it(a.limit >= 1, e1)
        a2 == IF a1.raised # "" THEN a1
              ELSE IF e2.raised = "TypeError" THEN Raised(e2)
              ELSE assert_it(a.limit <= 1000, e2)
        a3 == IF a2.raised # "" THEN a2
              ELSE IF e3.raised = "TypeError" THEN Raised(e3)
              ELSE assert_it(a.offset >= 0, e3)
    IN  IF a3.raised # ""
        THEN /\ call' = [op |-> "get_subscriptions", args |-> a, nreq |-> 0,
                         request |-> NoRequest, response |-> NoResponse] @@ a3
             /\ UNCHANGED <<token, stream, wire, trace, close_calls>>
        ELSE Exchange("get_subscriptions", a,
                      Request("GET", GetSubscriptionsPage(a), AuthHeaders, ""),
                      "get_subscriptions", "json")

(***************************************************************************)
(* NakadiStream and the two operations that open one.                      *)
(***************************************************************************)
NoBatch == [is_none |-> TRUE, text |-> <<>>]

NoStream ==
    [exists |-> FALSE,
     response |-> [headers |-> EmptyDict, raw |-> [closed |-> FALSE, pos |-> 0]],
     current_batch |-> NoBatch,
     it |-> [at |-> "loop"]]

NoWire == [headers |-> EmptyDict, content |-> <<>>, ended |-> FALSE]

\* NakadiStream.__init__: the response is kept, nothing has been read, and the
\* iter_lines generator has not started.
NakadiStream(response) ==
    [exists |-> TRUE, response |-> response, current_batch |-> NoBatch,
     it |-> [at |-> "loop"]]

\* The streaming response (stream=True) as requests hands it over: the headers
\* are in, the body is still on the wire.
StreamingResponse(headers) ==
    [headers |-> headers, raw |-> [closed |-> FALSE, pos |-> 0]]

\* The end of a stream-open operation: on success a new NakadiStream over the
\* open response, otherwise the exception and no stream.
OpenStream(op, a, req, resp_headers) ==
    \E resp \in Responses :
        LET out == AnswerStream(op, "get_subscription_events_stream", resp) IN
        /\ call' = [op |-> op, args |-> a, nreq |-> 1, request |-> req,
                    response |-> resp] @@ out
        /\ IF out.raised = ""
           THEN \E h \in resp_headers :
                    /\ stream' = NakadiStream(StreamingResponse(h))
                    /\ wire' = [headers |-> h, content |-> <<>>, ended |-> FALSE]
                    /\ trace' = <<>>
                    /\ close_calls' = 0
           ELSE UNCHANGED <<stream, wire, trace, close_calls>>
        /\ UNCHANGED token

Param(name, value) ==
    IF value # None THEN "&" \o name \o "=" \o ToString(value) ELSE ""

SubscriptionStreamDefaults ==
    [max_uncommitted_events |-> None, batch_limit |-> None, stream_limit |-> None,
     batch_flush_timeout |-> None, stream_timeout |-> None,
     stream_keep_alive_limit |-> None]

\* The query string of get_subscription_events_stream, statement by statement.
SubscriptionStreamQuery(a) ==
    LET q0 == ""
        q1 == IF a.max_uncommitted_events # None
              THEN q0 \o Param("max_uncommitted_events", a.max_uncommitted_events)
              ELSE q0
        q2 == IF a.batch_limit # None
              THEN "?batch_limit=" \o ToString(a.batch_limit)
              ELSE q1
        q3 == q2 \o Param("stream_limit", a.stream_limit)
        q4 == q3 \o Param("batch_flush_timeout", a.batch_flush_timeout)
        q5 == q4 \o Param("stream_timeout", a.stream_timeout)
        q6 == q5 \o Param("stream_keep_alive_limit", a.stream_keep_alive_limit)
    IN  IF q6 # "" THEN "?" \o DropFirst(q6) ELSE ""

get_subscription_events_stream(given) ==
    LET a == Bind(SubscriptionStreamDefaults, given) IN
    OpenStream("get_subscription_events_stream", a,
               Request("GET",
                       nakadi_url \o "/subscriptions/" \o subscription_id
                           \o "/events" \o SubscriptionStreamQuery(a),
                       AuthHeaders, ""),
               {("X-Nakadi-StreamId" :> sid) : sid \in StreamIds})

EventStreamDefaults ==
    [batch_limit |-> 1, stream_limit |-> 0, batch_flush_timeout |-> 30,
     stream_timeout |-> 0, stream_keep_alive_limit |-> 0]

\* A faulty variant of EventStreamQuery: stream_limit is assigned where the code
\* appends, so a batch_limit already collected is lost.
EventStreamQueryAssign(a) ==
    LET q1 == IF a.batch_limit # None
              THEN "&batch_limit=" \o ToString(a.batch_limit)
              ELSE ""
        q2 == IF a.stream_limit # None
              THEN "&stream_limit=" \o ToString(a.stream_limit)
              ELSE q1
        q3 == q2 \o Param("batch_flush_timeout", a.batch_flush_timeout)
        q4 == q3 \o Param("stream_timeout", a.stream_timeout)
        q5 == q4 \o Param("stream_keep_alive_limit", a.stream_keep_alive_limit)
    IN  IF q5 # "" THEN "?" \o DropFirst(q5) ELSE ""

\* The query string of get_event_type_events_stream, statement by statement.
EventStreamQuery(a) ==
    LET q0 == ""
        q1 == IF a.batch_limit # None
              THEN "&batch_limit=" \o ToString(a.batch_limit)
              ELSE q0
        q2 == q1 \o Param("stream_limit", a.stream_limit)
        q3 == q2 \o Param("batch_flush_timeout", a.batch_flush_timeout)
        q4 == q3 \o Param("stream_timeout", a.stream_timeout)
        q5 == q4 \o Param("stream_keep_alive_limit", a.stream_keep_alive_limit)
    IN  IF q5 # "" THEN "?" \o DropFirst(q5) ELSE ""

\* cursors is "" for None, else the JSON text json.dumps gives for the list.
get_event_type_events_stream(given, cursors) ==
    LET a == Bind(EventStreamDefaults, given) IN
    OpenStream("get_event_type_events_stream", given,
               Request("GET",
                       nakadi_url \o "/event-types/" \o event_type_name
                           \o "/events" \o EventStreamQuery(a),
                       IF cursors # ""
                       THEN ("X-nakadi-cursors" :> cursors) @@ AuthHeaders
                       ELSE AuthHeaders,
                       ""),
               {EmptyDict})

(***************************************************************************)
(* The broker's side of an open stream: whole batches, one line each, then *)
(* the end of the connection, possibly in the middle of a line.            *)
(***************************************************************************)
LineTexts == {<<97>>, <<233>>}

PartialLines == {<<97>>, <<195>>}

RECURSIVE CountLF(_)
CountLF(b) ==
    IF b = <<>> THEN 0 ELSE (IF Head(b) = LF THEN 1 ELSE 0) + CountLF(Tail(b))

Connected == stream.exists /\ ~wire.ended /\ ~stream.response.raw.closed

BrokerSend(line) ==
    /\ Connected
    /\ CountLF(wire.content) < MaxLines
    /\ wire' = [wire EXCEPT !.content = @ \o Encode(line) \o <<LF>>]
    /\ UNCHANGED <<token, call, stream, trace, close_calls>>

BrokerEnd ==
    /\ Connected
    /\ wire' = [wire EXCEPT !.ended = TRUE]
    /\ UNCHANGED <<token, call, stream, trace, close_calls>>

BrokerAbort(partial) ==
    /\ Connected
    /\ wire' = [wire EXCEPT !.content = @ \o partial, !.ended = TRUE]
    /\ UNCHANGED <<token, call, stream, trace, close_calls>>

(***************************************************************************)
(* NakadiStream: response.iter_lines(chunk_size=1) and __next__.           *)
(***************************************************************************)
\* bytes.splitlines(): lines end at \n, \r or \r\n; no empty last line.
RECURSIVE SplitFrom(_, _, _)
SplitFrom(b, i, cur) ==
    IF i > Len(b) THEN (IF cur = <<>> THEN <<>> ELSE <<cur>>)
    ELSE IF b[i] = LF THEN <<cur>> \o SplitFrom(b, i + 1, <<>>)
    ELSE IF b[i] = CR
    THEN <<cur>> \o SplitFrom(b, IF i + 1 <= Len(b) /\ b[i + 1] = LF
                                 THEN i + 2 ELSE i + 1, <<>>)
    ELSE SplitFrom(b, i + 1, Append(cur, b[i]))

SplitLines(b) == SplitFrom(b, 1, <<>>)

\* A faulty variant of RunIterLines: the pending partial line is not carried
\* over to the next chunk.
RECURSIVE RunIterLinesNoPending(_, _, _)
RunIterLinesNoPending(content, pos, pending) ==
    IF pos < Len(content)
    THEN LET chunk == <<content[pos + 1]>>
             lines == SplitLines(chunk)
             last  == IF lines = <<>> THEN <<>> ELSE lines[Len(lines)]
             keep  == /\ lines # <<>>
                      /\ last # <<>>
                      /\ last[Len(last)] = chunk[Len(chunk)]
             out   == IF keep THEN SubSeq(lines, 1, Len(lines) - 1) ELSE lines
         IN  IF out # <<>>
             THEN [kind |-> "yield", line |-> out[1], pos |-> pos + 1, eof |-> FALSE]
             ELSE RunIterLinesNoPending(content, pos + 1, IF keep THEN last ELSE <<>>)
    ELSE IF pending # <<>>
    THEN [kind |-> "yield", line |-> pending, pos |-> pos, eof |-> TRUE]
    ELSE [kind |-> "stop", line |-> <<>>, pos |-> pos, eof |-> TRUE]

\* The iter_lines generator resumed with `pos` bytes of the body consumed and
\* `pending` as its pending partial line (<<>> for None), run to its next
\* yield or to its end.  Each chunk is one byte; past the last byte of a body
\* the broker has ended, the read returns end-of-file and the loop is left.
RECURSIVE RunIterLines(_, _, _)
RunIterLines(content, pos, pending) ==
    IF pos < Len(content)
    THEN LET chunk == pending \o <<content[pos + 1]>>
             lines == SplitLines(chunk)
             last  == IF lines = <<>> THEN <<>> ELSE lines[Len(lines)]
             keep  == /\ lines # <<>>
                      /\ last # <<>>
                      /\ last[Len(last)] = chunk[Len(chunk)]
             out   == IF keep THEN SubSeq(lines, 1, Len(lines) - 1) ELSE lines
         IN  IF out # <<>>
             THEN [kind |-> "yield", line |-> out[1], pos |-> pos + 1, eof |-> FALSE]
             ELSE RunIterLines(content, pos + 1, IF keep THEN last ELSE <<>>)
    ELSE IF pending # <<>>
    THEN [kind |-> "yield", line |-> pending, pos |-> pos, eof |-> TRUE]
    ELSE [kind |-> "stop", line |-> <<>>, pos |-> pos, eof |-> TRUE]

\* A line end is on the wire past the bytes already consumed.
LineAvailable ==
    \E j \in (stream.response.raw.pos + 1)..Len(wire.content) :
        wire.content[j] \in {LF, CR}

NextOutcome(out) ==
    [eos |-> out.raised = "StopIteration", raised |-> out.raised,
     line |-> IF out.raised = "" THEN stream'.current_batch.text ELSE <<>>]

SessionCall(op, out) ==
    [op |-> op, args |-> NoArgs, nreq |-> 0, request |-> NoRequest,
     response |-> NoResponse] @@ out

\* NakadiStream.__next__, called by the session's one reader.  The call
\* blocks (the action is not enabled) while the generator waits for bytes the
\* broker has not sent.  A generator resumed after the caller closed the raw
\* stream ends, or fails inside the http library, as the library in use
\* decides.  Calls are atomic here: a close() from a second thread while a
\* read is in progress is not represented, since what it does to that read is
\* decided below requests, in urllib3, http.client and the socket layer.
NakadiStream_next ==
    /\ stream.exists
    /\ Len(trace) < MaxNext
    /\ \/ /\ stream.it.at \in {"done", "tail"}
          /\ stream' = [stream EXCEPT !.it.at = "done"]
          /\ call' = SessionCall("__next__", RaisedOther("StopIteration"))
       \/ /\ stream.it.at = "loop"
          /\ stream.response.raw.closed
          /\ stream' = [stream EXCEPT !.it.at = "done"]
          /\ \E e \in {"StopIteration", "LibraryError"} :
                 call' = SessionCall("__next__", RaisedOther(e))
       \/ /\ stream.it.at = "loop"
          /\ ~stream.response.raw.closed
          /\ wire.ended \/ LineAvailable
          /\ LET r == RunIterLines(wire.content, stream.response.raw.pos, <<>>)
                 d == Decode(r.line)
             IN  IF r.kind = "stop"
                 THEN /\ stream' = [stream EXCEPT !.it.at = "done",
                                                  !.response.raw.closed = TRUE,
                                                  !.response.raw.pos = r.pos]
                      /\ call' = SessionCall("__next__", RaisedOther("StopIteration"))
                 ELSE /\ stream' = [stream EXCEPT
                             !.it.at = IF r.eof THEN "tail" ELSE "loop",
                             !.response.raw.closed = r.eof,
                             !.response.raw.pos = r.pos,
                             !.current_batch = IF d.ok
                                               THEN [is_none |-> FALSE, text |-> d.text]
                                               ELSE @]
                      /\ call' = SessionCall("__next__",
                                    IF d.ok THEN Returned(Str(d.text))
                                    ELSE RaisedOther("UnicodeDecodeError"))
    /\ trace' = Append(trace, NextOutcome(call'))
    /\ UNCHANGED <<token, wire, close_calls>>

\* A faulty variant of StreamIdOf: the last batch is returned as the id.
StreamIdOfBatch(s) == Returned(Str(s.current_batch.text))

\* self.response.headers['X-Nakadi-StreamId']
StreamIdOf(s) ==
    IF "X-Nakadi-StreamId" \in DOMAIN s.response.headers
    THEN Returned(s.response.headers["X-Nakadi-StreamId"])
    ELSE RaisedOther("KeyError")

NakadiStream_get_stream_id ==
    /\ stream.exists
    /\ call' = SessionCall("get_stream_id", StreamIdOf(stream))
    /\ UNCHANGED <<token, stream, wire, trace, close_calls>>

\* A faulty variant of RawClose: closing a raw stream that is already closed
\* reopens the flag.
RawCloseToggle(raw) == [raw EXCEPT !.closed = ~@]

\* response.raw.close()
RawClose(raw) == [raw EXCEPT !.closed = TRUE]

NakadiStream_close ==
    /\ stream.exists
    /\ close_calls < MaxClose
    /\ stream' = [stream EXCEPT !.response.raw = RawClose(@)]
    /\ close_calls' = close_calls + 1
    /\ call' = SessionCall("close", Returned("None"))
    /\ UNCHANGED <<token, wire, trace>>

NakadiStream_closed ==
    /\ stream.exists
    /\ call' = SessionCall("closed",
                   Returned(IF stream.response.raw.closed THEN "True" ELSE "False"))
    /\ UNCHANGED <<token, stream, wire, trace, close_calls>>

(***************************************************************************)
(* Specifications.                                                         *)
(***************************************************************************)
Init ==
    /\ token = "t1"
    /\ call = [op |-> "__init__", args |-> NoArgs, nreq |-> 0,
               request |-> NoRequest, response |-> NoResponse] @@ Returned("None")
    /\ stream = NoStream
    /\ wire = NoWire
    /\ trace = <<>>
    /\ close_calls = 0

\* Keyword arguments of a call: any subset of the parameters, each with one of
\* its values.
Kwargs(values) ==
    UNION {{f \in [ps -> UNION {values[p] : p \in ps}] :
               \A p \in ps : f[p] \in values[p]}
           : ps \in SUBSET DOMAIN values}

NoKwargs == [k \in {} |-> None]

GetSubscriptionsInputs ==
    {kw @@ extra :
        kw \in Kwargs([limit |-> {0, 1, 1000, 1001}, offset |-> {-1, 5}]),
        extra \in {NoKwargs,
                   [owning_application |-> "app", event_type |-> <<"et1", "et2">>]}}

SubscriptionStreamInputs ==
    Kwargs([max_uncommitted_events |-> {10}, batch_limit |-> {2},
            stream_limit |-> {3}, batch_flush_timeout |-> {4},
            stream_timeout |-> {5}, stream_keep_alive_limit |-> {6}])

EventStreamInputs ==
    Kwargs([batch_limit |-> {None, 5}, stream_limit |-> {None}])

\* Each tuning parameter of get_event_type_events_stream left out of the call,
\* passed as None, or passed with a value (0 among them).
EventStreamAllInputs ==
    Kwargs([batch_limit |-> {None, 5}, stream_limit |-> {None, 6},
            batch_flush_timeout |-> {None, 0}, stream_timeout |-> {None, 8},
            stream_keep_alive_limit |-> {None, 9}])

CursorsInputs == {"", "[{\"partition\": \"0\", \"offset\": \"BEGIN\"}]"}

Crud ==
    \/ get_event_types
    \/ create_event_type
    \/ get_event_type
    \/ update_event_type
    \/ delete_event_type
    \/ get_event_type_cursor_distances
    \/ get_event_type_cursor_lag
    \/ post_events
    \/ get_event_type_partitions
    \/ get_event_type_partition
    \/ create_subscription
    \/ get_subscription
    \/ delete_subscription
    \/ get_subscription_stats
    \/ get_subscription_cursors

\* The transport: every operation of NakadiClient, with token rotation.
Next ==
    \/ \E t \in Tokens : set_token(t)
    \/ Crud
    \/ \E given \in GetSubscriptionsInputs : get_subscriptions(given)
    \/ \E sid \in HeldStreamIds, cursors \in CursorLists :
           commit_subscription_cursors(sid, cursors)
    \/ \E cursors \in CursorLists : reset_subscription_cursors(cursors)
    \/ \E given \in {NoKwargs, [batch_limit |-> 2]} :
           get_subscription_events_stream(given)
    \/ \E cursors \in CursorsInputs :
           get_event_type_events_stream(NoKwargs, cursors)

Spec == Init /\ [][Next]_vars

\* The stream-open operations over all their keyword arguments.
QueryNext ==
    \/ \E given \in SubscriptionStreamInputs : get_subscription_events_stream(given)
    \/ \E given \in EventStreamInputs, cursors \in CursorsInputs :
           get_event_type_events_stream(given, cursors)

QuerySpec == Init /\ [][QueryNext]_vars

\* get_event_type_events_stream over all its tuning parameters.
EventQueryNext ==
    \E given \in EventStreamAllInputs : get_event_type_events_stream(given, "")

EventQuerySpec == Init /\ [][EventQueryNext]_vars

\* One streaming session: opened, fed by the broker, read and closed by the
\* caller, who commits with the session's stream id as it goes.
SessionNext ==
    \/ get_subscription_events_stream(NoKwargs)
    \/ get_event_type_events_stream(NoKwargs, "")
    \/ \E line \in LineTexts : BrokerSend(line)
    \/ BrokerEnd
    \/ \E partial \in PartialLines : BrokerAbort(partial)
    \/ NakadiStream_next
    \/ NakadiStream_get_stream_id
    \/ NakadiStream_close
    \/ NakadiStream_closed

SessionSpec == Init /\ [][SessionNext]_vars

(***************************************************************************)
(* Properties of the streaming session (SessionSpec).                      *)
(***************************************************************************)
\* The lines L1..Ln of a text made of n newline-terminated lines.
RECURSIVE LinesOf(_, _)
LinesOf(text, cur) ==
    IF text = <<>> THEN <<>>
    ELSE IF Head(text) = LF THEN <<cur>> \o LinesOf(Tail(text), <<>>)
    ELSE LinesOf(Tail(text), Append(cur, Head(text)))

Terminated(content) == content = <<>> \/ content[Len(content)] = LF

\* C1: when the body is n newline-terminated lines L1..Ln and then the end of
\* the connection, and the caller never closes the session, the k-th call of
\* __next__ returns Lk for k <= n, and every call after the n-th raises
\* StopIteration (which it can only do once the broker has ended the body):
\* no line is skipped, repeated or reordered and the session never starts over.
C1_LinesInOrderThenEnd ==
    (stream.exists /\ close_calls = 0 /\ Terminated(wire.content)) =>
        LET L == LinesOf(Decode(wire.content).text, <<>>) IN
        \A k \in 1..Len(trace) :
            IF k <= Len(L)
            THEN trace[k].raised = "" /\ trace[k].line = L[k]
            ELSE trace[k].eos /\ wire.ended

C1_Witness ==
    /\ stream.exists /\ close_calls = 0 /\ wire.ended
    /\ Decode(wire.content).text = <<97, LF, 233, LF, 97, LF>>
    /\ Len(trace) = 5
    /\ trace[3].line = <<97>>
    /\ trace[4].eos /\ trace[5].eos

\* C4: on a session opened by get_subscription_events_stream whose 200
\* response carried X-Nakadi-StreamId = s, every get_stream_id() call returns
\* s, whatever was read or closed before it.
C4_StreamIdIsTheHeader ==
    (call.op = "get_stream_id" /\ "X-Nakadi-StreamId" \in DOMAIN wire.headers) =>
        call.raised = "" /\ call.value = wire.headers["X-Nakadi-StreamId"]

C4_Witness ==
    /\ call.op = "get_stream_id" /\ call.value = "abc123"
    /\ close_calls > 0
    /\ Len(trace) >= 2 /\ trace[Len(trace)].eos /\ trace[1].raised = ""

\* C5: close() never raises and leaves closed() true; once close() has been
\* called closed() stays true, through later reads, later close() calls and a
\* close() of a connection the broker had already ended.
C5_CloseIdempotent ==
    /\ call.op = "close" => call.raised = "" /\ stream.response.raw.closed
    /\ close_calls > 0 => stream.response.raw.closed
    /\ (call.op = "closed" /\ close_calls > 0) => call.value = "True"

C5_Witness ==
    /\ close_calls = 2 /\ wire.ended /\ Len(trace) > 0
    /\ call.op = "closed" /\ call.value = "True"

(***************************************************************************)
(* Properties of the transport (Spec, QuerySpec).                          *)
(***************************************************************************)
\* C2: commit_subscription_cursors sends one POST with the given stream id in
\* X-Nakadi-StreamId and {"items": cursors} as its body; it returns True
\* exactly when the status is 204, and any other status, 409 included, comes
\* back as a NakadiException whose code is that status.
C2_CommitContract ==
    call.op = "commit_subscription_cursors" =>
        /\ call.nreq = 1
        /\ call.request.method = "POST"
        /\ "X-Nakadi-StreamId" \in DOMAIN call.request.headers
        /\ call.request.headers["X-Nakadi-StreamId"] = call.args.stream_id
        /\ call.request.body = "{\"items\": " \o call.args.cursors \o "}"
        /\ (call.raised = "" /\ call.value = "True") <=> call.response.status_code = 204
        /\ call.response.status_code = 409 =>
               call.raised = "NakadiException" /\ call.code = 409
        /\ call.raised # "" =>
               call.raised = "NakadiException" /\ call.code = call.response.status_code

C2_Witness ==
    /\ call.op = "commit_subscription_cursors"
    /\ stream.exists
    /\ "X-Nakadi-StreamId" \in DOMAIN stream.response.headers
    /\ stream.response.headers["X-Nakadi-StreamId"] # call.args.stream_id
    /\ call.response.status_code = 409
    /\ call.raised = "NakadiException" /\ call.code = 409

StreamOps == {"get_subscription_events_stream", "get_event_type_events_stream"}

C3_Rejected ==
    (call.nreq = 1 /\ call.response.status_code \notin Accepted(call.op)) =>
        /\ call.raised = "NakadiException"
        /\ call.code = call.response.status_code
        /\ Contains(call.msg, Str(Decode(call.response.content).text))
        /\ call.value = ""

C3_NoStreamCreated ==
    (/\ call'.op \in StreamOps
     /\ call'.nreq = 1
     /\ call'.response.status_code \notin Accepted(call'.op)) => stream' = stream

\* C3: an operation that gets a status outside its accepted set raises a
\* NakadiException whose code is that status and whose msg contains the
\* response body, returns nothing, and, if it is a stream-open operation,
\* creates no NakadiStream.
C3_RejectedStatusRaises == []C3_Rejected /\ [][C3_NoStreamCreated]_vars

C3_Witness ==
    /\ call.op = "get_event_type_events_stream"
    /\ call.response.status_code = 409
    /\ call.response.content # <<>>
    /\ call.raised = "NakadiException" /\ call.code = 409
    /\ ~stream.exists

\* C7: a request carries 'Bearer ' + the token the client holds when the
\* request is built: while the last call is one that sent a request (no
\* set_token has run since), its Authorization header is the current token's.
C7_FreshToken ==
    call.nreq = 1 =>
        /\ "Authorization" \in DOMAIN call.request.headers
        /\ call.request.headers["Authorization"] = "Bearer " \o token

C7_Witness ==
    /\ call.nreq = 1 /\ token = "t2"
    /\ call.request.headers["Authorization"] = "Bearer t2"

\* How often `key=` starts a query parameter of `page`, and how often it does
\* so with the value `value`.
KeyCount(page, key) ==
    Cardinality({i \in 2..Len(page) :
        /\ i + Len(key) <= Len(page)
        /\ SubSeq(page, i - 1, i - 1) \in {"?", "&"}
        /\ SubSeq(page, i, i + Len(key)) = key \o "="})

PairCount(page, key, value) ==
    LET kv == key \o "=" \o ToString(value) IN
    Cardinality({i \in 2..Len(page) :
        /\ i + Len(kv) - 1 <= Len(page)
        /\ SubSeq(page, i - 1, i - 1) \in {"?", "&"}
        /\ SubSeq(page, i, i + Len(kv) - 1) = kv
        /\ i + Len(kv) - 1 = Len(page)
           \/ SubSeq(page, i + Len(kv), i + Len(kv)) = "&"})

\* C8: the url of get_subscription_events_stream carries each tuning parameter
\* that was supplied exactly once, with its value, and no parameter that was
\* omitted.
C8_QueryHasExactlyTheSupplied ==
    call.op = "get_subscription_events_stream" =>
        \A p \in DOMAIN SubscriptionStreamDefaults :
            IF call.args[p] # None
            THEN /\ KeyCount(call.request.page, p) = 1
                 /\ PairCount(call.request.page, p, call.args[p]) = 1
            ELSE KeyCount(call.request.page, p) = 0

InBounds(a) == a.limit >= 1 /\ a.limit <= 1000 /\ a.offset >= 0

\* C9: get_subscriptions with 1 <= limit <= 1000 and offset >= 0 sends one GET
\* to /subscriptions and ends by returning the decoded body of a 200 or by
\* raising a NakadiException with the status; it does not fail before sending.
C9_ValidListingIsSent ==
    (call.op = "get_subscriptions" /\ InBounds(call.args)) =>
        /\ call.nreq = 1
        /\ call.request.method = "GET"
        /\ \/ call.raised = "" /\ call.response.status_code = 200
           \/ /\ call.raised = "NakadiException"
              /\ call.code = call.response.status_code

\* C10: get_subscriptions with limit < 1, limit > 1000 or offset < 0 raises a
\* NakadiException and sends no request.
C10_InvalidListingRaisesNakadiException ==
    (call.op = "get_subscriptions" /\ ~InBounds(call.args)) =>
        call.raised = "NakadiException" /\ call.nreq = 0

\* C11: delete_event_type and delete_subscription answered 204 with an empty
\* body return a success marker and raise nothing.
C11_Delete204IsSuccess ==
    (/\ call.op \in {"delete_event_type", "delete_subscription"}
     /\ call.nreq = 1
     /\ call.response.status_code = 204
     /\ call.response.content = Encode(<<>>)) =>
        call.raised = "" /\ call.value = "True"

\* C12: get_stream_id() on a stream whose 200 response carries no
\* X-Nakadi-StreamId header (an event-type stream) completes without raising.
C12_AbsentStreamIdDoesNotRaise ==
    (/\ call.op = "get_stream_id"
     /\ stream.exists
     /\ "X-Nakadi-StreamId" \notin DOMAIN stream.response.headers) =>
        call.raised = ""

(***************************************************************************)
(* The query string of the event-type stream (EventQuerySpec).             *)
(***************************************************************************)
EventStreamParams ==
    {"batch_limit", "stream_limit", "batch_flush_timeout", "stream_timeout",
     "stream_keep_alive_limit"}

\* The url of the last get_event_type_events_stream call carries every tuning
\* parameter once, with the caller's value if one was passed and else with
\* the value `defaults` gives it, and leaves off exactly those passed as None.
EventQueryCarries(defaults) ==
    call.op = "get_event_type_events_stream" =>
        \A p \in EventStreamParams :
            LET v == IF p \in DOMAIN call.args THEN call.args[p] ELSE defaults[p]
            IN  IF v # None
                THEN /\ KeyCount(call.request.page, p) = 1
                     /\ PairCount(call.request.page, p, v) = 1
                ELSE /\ p \in DOMAIN call.args
                     /\ KeyCount(call.request.page, p) = 0

\* C13 as stated: get_event_type_events_stream called with only the event name
\* sends batch_limit=1, stream_limit=0, batch_flush_timeout=0, stream_timeout=0
\* and stream_keep_alive_limit=0; each parameter is sent with the caller's
\* value when given and left off only when the caller passes None.
C13_DefaultsWithFlushTimeoutZero ==
    EventQueryCarries([batch_limit |-> 1, stream_limit |-> 0,
                       batch_flush_timeout |-> 0, stream_timeout |-> 0,
                       stream_keep_alive_limit |-> 0])

\* C13, amended: get_event_type_events_stream called with only the event name
\* sends batch_limit=1, stream_limit=0, batch_flush_timeout=30,
\* stream_timeout=0 and stream_keep_alive_limit=0; each parameter is sent with
\* the caller's value when given and left off only when the caller passes None.
C13_DefaultsWithFlushTimeoutThirty ==
    EventQueryCarries([batch_limit |-> 1, stream_limit |-> 0,
                       batch_flush_timeout |-> 30, stream_timeout |-> 0,
                       stream_keep_alive_limit |-> 0])

C13_Witness ==
    /\ call.op = "get_event_type_events_stream"
    /\ DOMAIN call.args = {}
    /\ call.request.page =
           "http://nakadi/event-types/et1/events?batch_limit=1&stream_limit=0"
               \o "&batch_flush_timeout=30&stream_timeout=0"
               \o "&stream_keep_alive_limit=0"

====
